---------------------------- MODULE Spec2Model ----------------------------
(***************************************************************************)
(* rnotes (src/src/main.rs): a note-taking command line tool.  One         *)
(* invocation loads the configuration, optionally prints it, builds the    *)
(* note index by globbing the notes directory and dispatches one           *)
(* subcommand (new, ls, cat, find, grep, open).                            *)
(*                                                                         *)
(* Strings and paths are sequences of one-character strings.  The file     *)
(* system is the notes directory (its state and its entries); what a file  *)
(* holds, whether a program can be spawned and how a child exits are       *)
(* chosen when the program asks.                                           *)
(***************************************************************************)
EXTENDS Naturals, Sequences, FiniteSets, TLC

VARIABLES
    notes_dir,   \* Config.notes_dir, a path (absolute or relative)
    dirState,    \* what lies at notes_dir: "absent", "dir", "unreadable", "file"
    entries,     \* directory entries of notes_dir: name -> [kind, by]
    pc,          \* "idle", "main", "dispatch", "child", "exited"
    conf,        \* Cli.conf
    cmd,         \* Cli.command
    arg,         \* NoteArgs.note_arg
    notes,       \* the index: HashMap<String, PathBuf> as a function
    visited,     \* do_grep's loop: the notes read so far, <<note, content>>
    out,         \* lines written to standard output
    err,         \* lines written to standard error
    spawn,       \* the child process given to Command::status, or NoSpawn
    status,      \* what Command::status returned: [state, code]
    exit         \* <<>> while running, <<code>> once the process has ended

vars == <<notes_dir, dirState, entries, pc, conf, cmd, arg, notes, visited,
          out, err, spawn, status, exit>>

----------------------------------------------------------------------------
(* Bounds of the model *)

\* the most entries the notes directory holds
MaxEntries == 2

----------------------------------------------------------------------------
(* Exit codes *)

\* exitcode::OK
EXIT_OK == 0
\* exitcode::UNAVAILABLE
EXIT_UNAVAILABLE == 69
\* main returns Err: the process ends with the generic failure code
EXIT_FAILURE == 1

NoSpawn == [prog |-> <<>>, args |-> <<>>, cwd |-> <<>>, none |-> TRUE]
NoStatus == [state |-> "none", code |-> 0]

----------------------------------------------------------------------------
(* Strings *)

\* the code of a character: Rust compares strings by their bytes
Code(c) ==
    CASE c = "\n" -> 10
      [] c = "\r" -> 13
      [] c = " "  -> 32
      [] c = "*"  -> 42
      [] c = "."  -> 46
      [] c = "/"  -> 47
      [] c = "A"  -> 65
      [] c = "B"  -> 66
      [] c = "a"  -> 97
      [] c = "b"  -> 98
      [] c = "d"  -> 100
      [] c = "e"  -> 101
      [] c = "m"  -> 109
      [] c = "n"  -> 110
      [] c = "v"  -> 118
      [] c = "w"  -> 119

Min(x, y) == IF x <= y THEN x ELSE y

\* Ord for String: lexicographic on bytes, a proper prefix is smaller
StrLess(s, t) ==
    \E i \in 1..(Min(Len(s), Len(t)) + 1) :
        /\ \A j \in 1..(i - 1) : s[j] = t[j]
        /\ \/ (i = Len(s) + 1 /\ i <= Len(t))
           \/ (i <= Len(s) /\ i <= Len(t) /\ Code(s[i]) < Code(t[i]))

StartsWith(s, p) == Len(p) <= Len(s) /\ SubSeq(s, 1, Len(p)) = p

EndsWith(s, p) ==
    Len(p) <= Len(s) /\ SubSeq(s, Len(s) - Len(p) + 1, Len(s)) = p

\* str::contains(&str): case-sensitive, unanchored substring search
Contains(s, sub) ==
    \E i \in 0..Len(s) :
        i + Len(sub) <= Len(s) /\ SubSeq(s, i + 1, i + Len(sub)) = sub

\* the position of the last occurrence of character c in s, 0 if none
LastIndexOf(s, c) ==
    IF \E i \in 1..Len(s) : s[i] = c
    THEN CHOOSE i \in 1..Len(s) :
            s[i] = c /\ \A j \in (i + 1)..Len(s) : s[j] # c
    ELSE 0

\* the position of the first occurrence of character c in s, 0 if none
FirstIndexOf(s, c) ==
    IF \E i \in 1..Len(s) : s[i] = c
    THEN CHOOSE i \in 1..Len(s) :
            s[i] = c /\ \A j \in 1..(i - 1) : s[j] # c
    ELSE 0

\* str::split(c): the pieces between occurrences of c, empty pieces kept
RECURSIVE Split(_, _)
Split(s, c) ==
    LET i == FirstIndexOf(s, c) IN
    IF i = 0 THEN <<s>>
    ELSE <<SubSeq(s, 1, i - 1)>> \o Split(SubSeq(s, i + 1, Len(s)), c)

\* str::lines(): split at "\n", the final line ending optional, one "\r"
\* before the "\n" stripped
RECURSIVE Lines(_)
Lines(s) ==
    IF s = <<>> THEN <<>>
    ELSE LET i == FirstIndexOf(s, "\n")
             raw == IF i = 0 THEN s ELSE SubSeq(s, 1, i - 1)
             line == IF i # 0 /\ raw # <<>> /\ raw[Len(raw)] = "\r"
                     THEN SubSeq(raw, 1, Len(raw) - 1) ELSE raw
             rest == IF i = 0 THEN <<>> ELSE SubSeq(s, i + 1, Len(s))
         IN <<line>> \o Lines(rest)

\* the sequences that enumerate the finite set S, each element once
Perms(S) ==
    {f \in [1..Cardinality(S) -> S] : \A x \in S : \E i \in DOMAIN f : f[i] = x}

\* slice::sort_by_key on strings: the ascending enumeration of S
SortedSeq(S) ==
    CHOOSE f \in Perms(S) :
        \A i \in 1..(Cardinality(S) - 1) : StrLess(f[i], f[i + 1])


----------------------------------------------------------------------------
(* Paths: std::path *)

IsAbsolute(p) == p # <<>> /\ p[1] = "/"

\* Components read from the back: trailing separators and a trailing "."
\* component are skipped
RECURSIVE TrimTail(_)
TrimTail(p) ==
    IF p = <<>> THEN p
    ELSE IF p[Len(p)] = "/" THEN TrimTail(SubSeq(p, 1, Len(p) - 1))
    ELSE IF Len(p) >= 2 /\ p[Len(p)] = "." /\ p[Len(p) - 1] = "/"
         THEN TrimTail(SubSeq(p, 1, Len(p) - 2))
    ELSE p

\* Path::file_name: the last component when it is a normal one, else <<>>
\* (None)
FileName(p) ==
    LET t == TrimTail(p)
        last == SubSeq(t, LastIndexOf(t, "/") + 1, Len(t))
    IN IF last \in {<<>>, <<".">>, <<".", ".">>} THEN <<>> ELSE last

\* the stem of a file name: the whole name when it has no "." or when its
\* only "." is the first character, else the part before the last "."
StemOfName(f) ==
    LET i == LastIndexOf(f, ".") IN
    IF i <= 1 THEN f ELSE SubSeq(f, 1, i - 1)

\* Path::file_stem, <<>> for None
FileStem(p) == StemOfName(FileName(p))

\* Path::with_extension: unchanged when there is no file name; else the
\* buffer is cut right after the stem and "." and the extension are added
WithExtension(p, ext) ==
    LET t == TrimTail(p)
        start == LastIndexOf(t, "/")
    IN IF FileName(p) = <<>> THEN p
       ELSE SubSeq(t, 1, start + Len(FileStem(p)))
            \o (IF ext = <<>> THEN <<>> ELSE <<".">> \o ext)

\* Path::join: an absolute argument replaces the base
Join(base, p) ==
    IF IsAbsolute(p) THEN p
    ELSE IF base = <<>> \/ base[Len(base)] = "/" THEN base \o p
    ELSE base \o <<"/">> \o p

\* what the operating system makes of a path: its components, "" and "."
\* dropped
Components(p) ==
    LET parts == Split(p, "/") IN
    SelectSeq(parts, LAMBDA c : c # <<>> /\ c # <<".">>)

\* the working directory of the tool
ToolCwd == <<"/", "w">>

\* the file a path denotes for a process whose working directory is cwd
\* (cwd itself given relative to the tool's working directory)
Resolve(cwd, p) == Components(Join(Join(ToolCwd, cwd), p))

----------------------------------------------------------------------------
(* glob::glob *)

\* Pattern::matches with the default MatchOptions: "*" matches any
\* sequence of characters, a leading "." included
RECURSIVE PatternMatches(_, _)
PatternMatches(pat, s) ==
    IF pat = <<>> THEN s = <<>>
    ELSE IF pat[1] = "*"
         THEN \E i \in 0..Len(s) :
                PatternMatches(Tail(pat), SubSeq(s, i + 1, Len(s)))
    ELSE s # <<>> /\ s[1] = pat[1] /\ PatternMatches(Tail(pat), Tail(s))


----------------------------------------------------------------------------
(* Configuration: the Config record that confy::load returned *)

CfgEditor == <<"e">>
CfgViewer == <<"v", " ", "n">>
CfgExtension == <<"m", "d">>
CfgConf == <<"/", "c">>

\* the notes directories of the model: an absolute and a relative one
NotesDirs == {<<"/", "n">>, <<"n">>}

----------------------------------------------------------------------------
(* The inputs of the model *)

\* names of entries the notes directory may hold at the start
EntryNames ==
    { <<"a", ".", "m", "d">>,
      <<"B", ".", "m", "d">>,
      <<"a", "b", ".", "m", "d">>,
      <<"a", "m", "d">> }

\* arguments of new, cat, open and find
NameArgs ==
    { <<>>, <<"a">>, <<"b">>, <<"B">>, <<"a", ".", "b">>,
      <<"/", "a">>, <<"a", "/">> }

\* arguments of grep
GrepArgs == { <<>>, <<"a">>, <<"b">> }

\* what a note file may hold
Contents ==
    { <<>>,
      <<"a">>,
      <<"a", "\n", "b", "\n", "a", "b">>,
      <<"a", "b", "\r", "\n">> }

\* exit codes of the editor or viewer
ChildCodes == {0, 1}

\* Cli.command: a subcommand, or none ("none": --conf alone)
Commands == {"new", "ls", "cat", "find", "grep", "open", "none"}

ArgsOf(c) ==
    IF c \in {"ls", "none"} THEN {<<>>}
    ELSE IF c = "grep" THEN GrepArgs ELSE NameArgs

EnvMade == [new |-> FALSE, name |-> <<>>]
NewMade(name) == [new |-> TRUE, name |-> name]

InitEntries ==
    UNION { [S -> {[kind |-> k, by |-> EnvMade] : k \in {"file", "dir"}}] :
            S \in {T \in SUBSET EntryNames : Cardinality(T) <= MaxEntries} }

----------------------------------------------------------------------------
(* Output lines.  Colorize::bold is kept as a mark on the styled part. *)

Blank == [t |-> "blank", a |-> <<>>, b |-> <<>>]
Bold(s) == [t |-> "bold", a |-> s, b |-> <<>>]
MatchLine(note, l) == [t |-> "match", a |-> note, b |-> l]
CreatedLine(file, dir) == [t |-> "created", a |-> file, b |-> dir]
ConfigLine(field, value) == [t |-> field, a |-> value, b |-> <<>>]
NotFoundLine(name) == [t |-> "not found", a |-> name, b |-> <<>>]
ErrorLine(what) == [t |-> what, a |-> <<>>, b |-> <<>>]


----------------------------------------------------------------------------
(* build_notes *)

\* the pattern handed to glob: notes_dir joined with "*", the extension set
GlobPattern == WithExtension(Join(notes_dir, <<"*">>), CfgExtension)

\* whether glob yields the directory entry named name for the last
\* component of the pattern: every path that matches, of whatever kind
GlobYields(pat, name) == PatternMatches(pat, name)

\* glob: the matching entries of the directory the pattern names, in
\* ascending order of name; nothing when it is absent or no directory;
\* an error item when it cannot be read
Glob(pattern) ==
    LET cut == LastIndexOf(pattern, "/")
        dir == SubSeq(pattern, 1, cut - 1)
        pat == SubSeq(pattern, cut + 1, Len(pattern))
        hits == SortedSeq({n \in DOMAIN entries : GlobYields(pat, n)})
    IN CASE dirState = "unreadable" -> [ok |-> FALSE, paths |-> <<>>]
         [] dirState = "dir" ->
                [ok |-> TRUE,
                 paths |-> [i \in DOMAIN hits |-> Join(dir, hits[i])]]
         [] OTHER -> [ok |-> TRUE, paths |-> <<>>]

\* the key of a matched path
NoteName(note_path) == FileStem(note_path)

\* HashMap::from_iter over (key, path) pairs: a later pair replaces an
\* earlier one with the same key
FromIter(c) ==
    [k \in {c[i][1] : i \in DOMAIN c} |->
        c[CHOOSE i \in DOMAIN c :
            c[i][1] = k /\ \A j \in DOMAIN c : c[j][1] = k => j <= i][2]]

build_notes ==
    LET g == Glob(GlobPattern)
        c == [i \in DOMAIN g.paths |-> <<NoteName(g.paths[i]), g.paths[i]>>]
    IN IF ~g.ok \/ \E i \in DOMAIN c : c[i][1] = <<>>
       THEN [ok |-> FALSE, notes |-> <<>>]
       ELSE [ok |-> TRUE, notes |-> FromIter(c)]

----------------------------------------------------------------------------
(* _cmd and the handlers' pure parts *)

\* the process _cmd builds: the command line split at single spaces, the
\* note as the last argument, the working directory set
Command(cmdline, path, note) ==
    LET v == Split(cmdline, " ") IN
    [prog |-> v[1], args |-> Tail(v) \o <<note>>, cwd |-> path, none |-> FALSE]

\* the last argument of a spawned process
LastArg(sp) == sp.args[Len(sp.args)]

\* do_new's note_file
NoteFile(note_name) == WithExtension(note_name, CfgExtension)

\* the program Cat and Open run
ProgramOf(c) == IF c = "cat" THEN CfgViewer ELSE CfgEditor

\* (a variant that hands the child's code on)
ExitAfterChild_ChildCode(code) == IF code = 0 THEN EXIT_OK ELSE EXIT_FAILURE

\* the exit code once Command::status has returned Ok: the child's code
\* is not looked at
ExitAfterChild(code) == EXIT_OK

\* (a variant that builds the index before it looks at --conf)
FirstStep_BuildFirst(c) == "build_notes"

\* what main does first: --conf prints the configuration and exits
FirstStep(c) == IF c THEN "do_print_config" ELSE "build_notes"

\* do_ls: a blank line, then the keys in ascending order
LsOutput(m) ==
    LET sorted == SortedSeq(DOMAIN m) IN
    <<Blank>> \o [i \in DOMAIN sorted |-> Bold(sorted[i])]

\* (a variant that anchors the match at the start of the key)
FindFilter_Prefix(key, note_arg) == StartsWith(key, note_arg)

\* do_find's filter
FindFilter(key, note_arg) == Contains(key, note_arg)

\* do_find: a blank line, then the matching keys in iteration order
FindOutput(note_arg, order) ==
    LET hits == SelectSeq(order, LAMBDA k : FindFilter(k, note_arg)) IN
    <<Blank>> \o [i \in DOMAIN hits |-> Bold(hits[i])]

\* do_grep's closure over the lines of one note: nl is the flag that
\* prints the blank line before the first match
RECURSIVE GrepLines(_, _, _, _)
GrepLines(note, lines, note_arg, nl) ==
    IF lines = <<>> THEN <<>>
    ELSE IF Contains(lines[1], note_arg)
         THEN (IF nl THEN <<Blank>> ELSE <<>>)
              \o <<MatchLine(note, lines[1])>>
              \o GrepLines(note, Tail(lines), note_arg, FALSE)
    ELSE GrepLines(note, Tail(lines), note_arg, nl)

\* (a variant whose blank line does not wait for the first match)
GrepOutput_EagerBlank(note, content, note_arg) ==
    <<Blank>> \o GrepLines(note, Lines(content), note_arg, FALSE)

\* what do_grep prints for one note that was read
GrepOutput(note, content, note_arg) ==
    GrepLines(note, Lines(content), note_arg, TRUE)

\* do_print_config's lines
ConfigOutput ==
    << Blank,
       ConfigLine("Configuration file", CfgConf),
       ConfigLine("Notes directory", notes_dir),
       ConfigLine("Editor", CfgEditor),
       ConfigLine("Viewer", CfgViewer),
       ConfigLine("Notes extension", CfgExtension) >>


----------------------------------------------------------------------------
(* The state machine *)

Init ==
    /\ notes_dir \in NotesDirs
    /\ dirState \in {"absent", "dir", "unreadable", "file"}
    /\ entries \in InitEntries
    /\ dirState # "dir" => entries = <<>>
    /\ pc = "idle"
    /\ conf = FALSE
    /\ cmd = "ls"
    /\ arg = <<>>
    /\ notes = <<>>
    /\ visited = <<>>
    /\ out = <<>>
    /\ err = <<>>
    /\ spawn = NoSpawn
    /\ status = NoStatus
    /\ exit = <<>>

\* the process ends with this code
Ends(code) == pc' = "exited" /\ exit' = <<code>>

\* main returns Err(e): anyhow prints the error, the process fails
Fails(what) == err' = Append(err, ErrorLine(what)) /\ Ends(EXIT_FAILURE)

\* The user runs the tool: Cli::parse, after confy::load.  With no
\* argument at all clap prints the help (arg_required_else_help), so an
\* invocation without a subcommand has --conf.
Invoke(c, a, f) ==
    /\ pc = "idle"
    /\ c = "none" => f
    /\ pc' = "main"
    /\ conf' = f
    /\ cmd' = c
    /\ arg' = a
    /\ UNCHANGED <<notes_dir, dirState, entries, notes, visited, out, err,
                   spawn, status, exit>>

\* main, --conf given: do_print_config
PrintConfig ==
    /\ pc = "main"
    /\ FirstStep(conf) = "do_print_config"
    /\ out' = out \o ConfigOutput
    /\ Ends(EXIT_OK)
    /\ UNCHANGED <<notes_dir, dirState, entries, conf, cmd, arg, notes,
                   visited, err, spawn, status>>

\* main: let notes = build_notes(&cfg)?
BuildNotes ==
    /\ pc = "main"
    /\ FirstStep(conf) = "build_notes"
    /\ LET r == build_notes IN
       IF r.ok
       THEN /\ notes' = r.notes
            /\ pc' = "dispatch"
            /\ UNCHANGED <<err, exit>>
       ELSE /\ Fails("glob")
            /\ UNCHANGED notes
    /\ UNCHANGED <<notes_dir, dirState, entries, conf, cmd, arg, visited,
                   out, spawn, status>>

\* _cmd up to Command::status: the program is started, or cannot be
Spawns(sp, unlaunchable) ==
    /\ spawn' = sp
    /\ IF unlaunchable
       THEN /\ status' = [state |-> "failed", code |-> 0]
            /\ Fails("Failed to open viewer or editor")
       ELSE /\ pc' = "child"
            /\ UNCHANGED <<err, exit, status>>

\* do_new up to the editor running: create_dir_all, then _cmd
DoNew(unlaunchable) ==
    /\ pc = "dispatch"
    /\ cmd = "new"
    /\ IF dirState = "file"
       THEN /\ Fails("create_dir_all")
            /\ UNCHANGED <<dirState, spawn, status>>
       ELSE /\ dirState' = IF dirState = "absent" THEN "dir" ELSE dirState
            /\ Spawns(Command(CfgEditor, notes_dir, NoteFile(arg)),
                      unlaunchable)
    /\ UNCHANGED <<notes_dir, entries, conf, cmd, arg, notes, visited, out>>

\* do_cmd for cat and open: the lookup, then _cmd or "not found"
DoCmd(unlaunchable) ==
    /\ pc = "dispatch"
    /\ cmd \in {"cat", "open"}
    /\ IF arg \in DOMAIN notes
       THEN Spawns(Command(ProgramOf(cmd), notes_dir, notes[arg]),
                   unlaunchable)
       ELSE /\ err' = Append(err, NotFoundLine(arg))
            /\ Ends(EXIT_UNAVAILABLE)
            /\ UNCHANGED <<spawn, status>>
    /\ UNCHANGED <<notes_dir, dirState, entries, conf, cmd, arg, notes,
                   visited, out>>

\* whether the editor can create the file it was given directly inside
\* the notes directory
CanCreate(sp) ==
    LET target == LastArg(sp)
        f == FileName(target)
    IN /\ target # <<>>
       /\ target[Len(target)] # "/"
       /\ f # <<>>
       /\ Resolve(sp.cwd, target) = Resolve(notes_dir, f)
       /\ dirState = "dir"
       /\ f \notin DOMAIN entries
       /\ Cardinality(DOMAIN entries) < MaxEntries

\* the entries with one more
WithEntry(f, e) ==
    [n \in DOMAIN entries \cup {f} |-> IF n = f THEN e ELSE entries[n]]

\* The child exits with some code and Command::status returns; the editor
\* do_new started may have created the file.  Then the rest of the
\* handler: do_new prints its confirmation; main returns Ok.
ChildExits(code, creates) ==
    /\ pc = "child"
    /\ status' = [state |-> "exited", code |-> code]
    /\ IF creates
       THEN /\ cmd = "new"
            /\ CanCreate(spawn)
            /\ entries' = WithEntry(FileName(LastArg(spawn)),
                                    [kind |-> "file", by |-> NewMade(arg)])
       ELSE UNCHANGED entries
    /\ out' = IF cmd = "new"
              THEN out \o <<Blank, CreatedLine(NoteFile(arg), notes_dir)>>
              ELSE out
    /\ Ends(ExitAfterChild(code))
    /\ UNCHANGED <<notes_dir, dirState, conf, cmd, arg, notes, visited, err,
                   spawn>>

\* do_ls
DoLs ==
    /\ pc = "dispatch"
    /\ cmd = "ls"
    /\ out' = out \o LsOutput(notes)
    /\ Ends(EXIT_OK)
    /\ UNCHANGED <<notes_dir, dirState, entries, conf, cmd, arg, notes,
                   visited, err, spawn, status>>

\* do_find, the map iterated in some order; main returns Ok
DoFind(order) ==
    /\ pc = "dispatch"
    /\ cmd = "find"
    /\ out' = out \o FindOutput(arg, order)
    /\ Ends(EXIT_OK)
    /\ UNCHANGED <<notes_dir, dirState, entries, conf, cmd, arg, notes,
                   visited, err, spawn, status>>

\* the keys do_grep's loop has yet to reach
Unvisited == DOMAIN notes \ {visited[i].note : i \in DOMAIN visited}

\* what fs::read_to_string may return for the entry a path names: a
\* directory cannot be read; a file holds some text, or cannot be read
\* (no valid UTF-8, no permission, deleted since the scan)
ReadErr == [ok |-> FALSE, text |-> <<>>]
ReadResults(path) ==
    IF entries[FileName(path)].kind = "dir" THEN {ReadErr}
    ELSE {ReadErr} \cup {[ok |-> TRUE, text |-> c] : c \in Contents}

\* one turn of do_grep's loop: read the note, print its matching lines;
\* a read error leaves the loop and main with `?`
GrepNote(note, r) ==
    /\ pc = "dispatch"
    /\ cmd = "grep"
    /\ note \in Unvisited
    /\ r \in ReadResults(notes[note])
    /\ visited' = Append(visited, [note |-> note, ok |-> r.ok, text |-> r.text])
    /\ IF r.ok
       THEN /\ out' = out \o GrepOutput(note, r.text, arg)
            /\ UNCHANGED <<pc, err, exit>>
       ELSE /\ Fails("read_to_string")
            /\ UNCHANGED out
    /\ UNCHANGED <<notes_dir, dirState, entries, conf, cmd, arg, notes,
                   spawn, status>>

\* do_grep's loop is over: Ok(()), and main returns Ok
GrepEnd ==
    /\ pc = "dispatch"
    /\ cmd = "grep"
    /\ Unvisited = {}
    /\ Ends(EXIT_OK)
    /\ UNCHANGED <<notes_dir, dirState, entries, conf, cmd, arg, notes,
                   visited, out, err, spawn, status>>

\* The process is gone; the file system stays for the next invocation
Reset ==
    /\ pc = "exited"
    /\ pc' = "idle"
    /\ conf' = FALSE
    /\ cmd' = "ls"
    /\ arg' = <<>>
    /\ notes' = <<>>
    /\ visited' = <<>>
    /\ out' = <<>>
    /\ err' = <<>>
    /\ spawn' = NoSpawn
    /\ status' = NoStatus
    /\ exit' = <<>>
    /\ UNCHANGED <<notes_dir, dirState, entries>>

Next ==
    \/ \E c \in Commands : \E a \in ArgsOf(c) : \E f \in BOOLEAN :
         Invoke(c, a, f)
    \/ PrintConfig
    \/ BuildNotes
    \/ \E unlaunchable \in BOOLEAN : DoNew(unlaunchable)
    \/ \E unlaunchable \in BOOLEAN : DoCmd(unlaunchable)
    \/ \E code \in ChildCodes : \E creates \in BOOLEAN :
         ChildExits(code, creates)
    \/ DoLs
    \/ \E order \in Perms(DOMAIN notes) : DoFind(order)
    \/ \E note \in DOMAIN notes : \E r \in {ReadErr} \cup
            {[ok |-> TRUE, text |-> c] : c \in Contents} : GrepNote(note, r)
    \/ GrepEnd
    \/ Reset

Spec == Init /\ [][Next]_vars


----------------------------------------------------------------------------
(* What the claims speak of *)

\* the subcommand's handler has been entered in this invocation
HandlerRan ==
    /\ ~conf
    /\ pc \in {"child", "exited"}
    /\ err # <<ErrorLine("glob")>>

\* the note files of the notes directory: regular files named <s>.<ext>
DotExt == <<".">> \o CfgExtension
NoteFiles ==
    {n \in DOMAIN entries :
        dirState = "dir" /\ entries[n].kind = "file" /\ EndsWith(n, DotExt)}

\* the file name without ".<ext>"
WithoutExt(n) == SubSeq(n, 1, Len(n) - Len(DotExt))

\* the file <notes_dir>/<name>.<ext>, as the operating system sees it
NotePath(name) ==
    Components(Join(ToolCwd, notes_dir) \o <<"/">> \o name \o DotExt)

HasChar(s, c) == \E i \in 1..Len(s) : s[i] = c

\* C1 (as claimed): Cat(s) and Open(s) run the viewer / the editor on the
\* indexed path when a file <s>.<ext> exists in the notes directory, and
\* otherwise print "<s> not found", spawn nothing and end with the
\* "service unavailable" code.
C1_LookupFollowsFiles ==
    (HandlerRan /\ cmd \in {"cat", "open"}) =>
        IF (arg \o DotExt) \in NoteFiles
        THEN /\ arg \in DOMAIN notes
             /\ spawn = Command(ProgramOf(cmd), notes_dir, notes[arg])
             /\ LastArg(spawn) = Join(notes_dir, arg \o DotExt)
        ELSE /\ err = <<NotFoundLine(arg)>>
             /\ spawn = NoSpawn
             /\ pc = "exited"
             /\ exit = <<EXIT_UNAVAILABLE>>

\* C3 (as claimed): the index holds exactly one entry per regular file
\* <s>.<ext> directly inside the notes directory, keyed by s and mapped to
\* the file's path; directories are never entries; a notes directory that
\* does not exist gives the empty index, not an error.
C3_IndexIsRegularFiles ==
    /\ pc = "dispatch" =>
          /\ DOMAIN notes = {WithoutExt(n) : n \in NoteFiles}
          /\ Cardinality(DOMAIN notes) = Cardinality(NoteFiles)
          /\ \A n \in NoteFiles :
                WithoutExt(n) \in DOMAIN notes
                    => notes[WithoutExt(n)] = Join(notes_dir, n)
          /\ \A k \in DOMAIN notes :
                /\ FileName(notes[k]) \in DOMAIN entries
                /\ entries[FileName(notes[k])].kind = "file"
    /\ (pc = "exited" /\ err = <<ErrorLine("glob")>>) => dirState # "absent"

\* C4 (as claimed): Ls prints a blank line, then exactly the stems of the
\* note files of the directory, each once, in ascending byte order, and
\* ends with the success code.
C4_LsListsNoteFiles ==
    (HandlerRan /\ cmd = "ls") =>
        LET stems == SortedSeq({WithoutExt(n) : n \in NoteFiles}) IN
        /\ out = <<Blank>> \o [i \in DOMAIN stems |-> Bold(stems[i])]
        /\ exit = <<EXIT_OK>>

\* C2 (as claimed): when a note cannot be read, Grep fails and has
\* printed nothing, whichever note it is and whatever the iteration order.
C2_GrepAllOrNothing ==
    (pc = "exited" /\ cmd = "grep"
        /\ \E i \in DOMAIN visited : ~visited[i].ok) =>
            /\ exit = <<EXIT_FAILURE>>
            /\ out = <<>>

\* C6 (as claimed): for every name without a dot, New(name) runs the
\* editor on <notes_dir>/<name>.<ext> (the argument resolved against the
\* child's working directory), the notes directory existing by then.
C6_NewTargetsNotePath ==
    (cmd = "new" /\ spawn # NoSpawn /\ ~HasChar(arg, ".")) =>
        /\ dirState = "dir"
        /\ spawn.prog = Split(CfgEditor, " ")[1]
        /\ Resolve(spawn.cwd, LastArg(spawn)) = NotePath(arg)

\* C10 (as claimed): once New(name) has run and the editor created the
\* file it was given, a later Cat(name) / Open(name) finds name in the
\* index and hands the child a path that, resolved against the child's
\* working directory, is <notes_dir>/<name>.<ext>; for an absolute and
\* for a relative notes directory, name without dot and path separator.
C10_NewThenLookupRoundTrip ==
    (HandlerRan /\ cmd \in {"cat", "open"}
        /\ ~HasChar(arg, ".") /\ ~HasChar(arg, "/")
        /\ (arg \o DotExt) \in DOMAIN entries
        /\ entries[arg \o DotExt] = [kind |-> "file", by |-> NewMade(arg)]) =>
            /\ arg \in DOMAIN notes
            /\ spawn # NoSpawn
            /\ Resolve(spawn.cwd, LastArg(spawn)) = NotePath(arg)


\* the lines of a text that contain sub, in the order of the text
MatchingLines(text, sub) == SelectSeq(Lines(text), LAMBDA l : Contains(l, sub))

\* the block Grep owes a note: nothing without a match, else one blank
\* line and "<note>: <line>" per matching line
ExpectedBlock(note, text, sub) ==
    LET m == MatchingLines(text, sub) IN
    IF m = <<>> THEN <<>>
    ELSE <<Blank>> \o [i \in DOMAIN m |-> MatchLine(note, m[i])]

RECURSIVE ExpectedBlocks(_, _)
ExpectedBlocks(reads, sub) ==
    IF reads = <<>> THEN <<>>
    ELSE ExpectedBlock(reads[1].note, reads[1].text, sub)
         \o ExpectedBlocks(Tail(reads), sub)

\* C5: Grep(text) with every note readable prints, note by note, exactly
\* the lines of the note that contain text, in file order, each as
\* "<note>: <line>", one blank line before the first line of a note that
\* has a match and nothing at all for a note that has none; every note of
\* the index is read once.
C5_GrepPrintsMatchingLines ==
    (pc = "exited" /\ cmd = "grep" /\ exit = <<EXIT_OK>> /\ ~conf) =>
        /\ {visited[i].note : i \in DOMAIN visited} = DOMAIN notes
        /\ Len(visited) = Cardinality(DOMAIN notes)
        /\ \A i \in DOMAIN visited : visited[i].ok
        /\ out = ExpectedBlocks(visited, arg)

\* a grep that printed two lines of one note and none of another note
\* that has lines
C5_Witness ==
    /\ pc = "exited" /\ cmd = "grep" /\ exit = <<EXIT_OK>> /\ ~conf
    /\ \E i, j \in DOMAIN visited :
          /\ Len(MatchingLines(visited[i].text, arg)) = 2
          /\ MatchingLines(visited[j].text, arg) = <<>>
          /\ Lines(visited[j].text) # <<>>
          /\ Len(MatchingLines(visited[i].text, arg))
                < Len(Lines(visited[i].text))

\* C7: Find(sub) prints a blank line, then exactly the keys of the index
\* that contain sub (case-sensitive, anywhere in the key), each once; the
\* empty string selects every key; with no match only the blank line is
\* printed, nothing goes to the error stream and the exit code is the
\* success code.
C7_FindPrintsMatchingKeys ==
    (HandlerRan /\ cmd = "find") =>
        LET hits == {k \in DOMAIN notes : Contains(k, arg)} IN
        /\ pc = "exited"
        /\ out # <<>> /\ out[1] = Blank
        /\ Len(out) = 1 + Cardinality(hits)
        /\ {out[i] : i \in 2..Len(out)} = {Bold(k) : k \in hits}
        /\ arg = <<>> => hits = DOMAIN notes
        /\ err = <<>>
        /\ exit = <<EXIT_OK>>

\* find b with the keys ab and B in the index: ab alone is printed
C7_Witness ==
    /\ HandlerRan /\ cmd = "find" /\ arg = <<"b">>
    /\ DOMAIN notes = {<<"a", "b">>, <<"B">>}
    /\ out = <<Blank, Bold(<<"a", "b">>)>>

\* C8 (as claimed): for New, Cat and Open the invocation ends with the
\* success code whenever the program was started, whatever code the child
\* exits with, and New prints its confirmation; the invocation ends with
\* the failure code only when the program cannot be started, and then New
\* prints no confirmation.
C8_OnlySpawnFailureFails ==
    (pc = "exited" /\ cmd \in {"new", "cat", "open"} /\ ~conf) =>
        /\ status.state = "exited" =>
              /\ exit = <<EXIT_OK>>
              /\ cmd = "new" =>
                    out = <<Blank, CreatedLine(NoteFile(arg), notes_dir)>>
        /\ status.state = "failed" =>
              /\ exit = <<EXIT_FAILURE>>
              /\ out = <<>>
        /\ exit = <<EXIT_FAILURE>> => status.state = "failed"

\* C8 (amended): for New, Cat and Open, once _cmd is reached, the
\* invocation ends with the success code whatever code the child exits
\* with, and New prints its confirmation; when the program cannot be
\* started it ends with the generic failure code (not the success code,
\* not the "service unavailable" code) and New prints no confirmation.
\* The failure code has two more causes, both before any program is
\* started: the index scan fails, or New cannot create the notes directory.
C8_ChildCodeIgnored ==
    (pc = "exited" /\ cmd \in {"new", "cat", "open"} /\ ~conf) =>
        /\ spawn # NoSpawn =>
              /\ status.state \in {"exited", "failed"}
              /\ status.state = "exited" =>
                    /\ exit = <<EXIT_OK>>
                    /\ cmd = "new" =>
                          out = <<Blank,
                                  CreatedLine(NoteFile(arg), notes_dir)>>
              /\ status.state = "failed" =>
                    /\ exit = <<EXIT_FAILURE>>
                    /\ EXIT_FAILURE \notin {EXIT_OK, EXIT_UNAVAILABLE}
                    /\ out = <<>>
              /\ exit # <<EXIT_OK>> => status.state = "failed"
        /\ (spawn = NoSpawn /\ exit = <<EXIT_FAILURE>>) =>
              /\ status = NoStatus
              /\ out = <<>>
              /\ \/ err = <<ErrorLine("glob")>>
                 \/ cmd = "new" /\ err = <<ErrorLine("create_dir_all")>>

\* new whose editor exited with a code other than zero
C8_Witness ==
    /\ pc = "exited" /\ cmd = "new"
    /\ status = [state |-> "exited", code |-> 1]
    /\ exit = <<EXIT_OK>>
    /\ Len(out) = 2

\* C9: with --conf the invocation prints the configuration and ends with
\* the success code in one step: the index is not built, no subcommand
\* runs, nothing is spawned, the notes directory is neither created nor
\* changed, and a notes directory that cannot be scanned makes no
\* difference.
C9_ConfSuppressesEverything ==
    [][(pc = "main" /\ conf) =>
          /\ pc' = "exited"
          /\ exit' = <<EXIT_OK>>
          /\ out' = ConfigOutput
          /\ err' = <<>>
          /\ spawn' = NoSpawn
          /\ status' = NoStatus
          /\ notes' = <<>>
          /\ dirState' = dirState
          /\ entries' = entries]_vars

\* --conf new a with no notes directory: ended well, still no directory
C9_Witness ==
    /\ pc = "exited" /\ conf /\ cmd = "new" /\ arg = <<"a">>
    /\ dirState = "absent"
    /\ exit = <<EXIT_OK>>

\* --conf with a notes directory that cannot be read
C9_WitnessUnreadable ==
    /\ pc = "exited" /\ conf /\ cmd = "cat"
    /\ dirState = "unreadable"
    /\ exit = <<EXIT_OK>>

============================================================================
